---- MODULE Spec2Model ----
(***************************************************************************)
(* EmotionCV backend: the analyze pipeline (estimate, fuse, generate       *)
(* response, assess risk, emergency decision, persist) of                  *)
(* src/backend/app.py, src/backend/ml_pipeline.py and src/backend/db.py.   *)
(*                                                                         *)
(* Representation.                                                         *)
(*  - A score is an integer number of thousandths (0.7 is 700).  The       *)
(*    weighted sum of fuse_emotions and the product of assess_risk are     *)
(*    computed in ten-thousandths and rounded to thousandths by Round3.    *)
(*    Every input score of the model is an even number of thousandths, so  *)
(*    no weighted sum lies exactly half way between two thousandths: on    *)
(*    such ties Python's round() is decided by binary representation       *)
(*    error, which integers do not model.                                  *)
(*  - A Python dict is a sequence of <<key, value>> pairs in insertion     *)
(*    order, keys distinct.                                                *)
(*  - A Python str is Str(<<characters>>); None is PyNone.                 *)
(***************************************************************************)
EXTENDS Integers, Sequences, FiniteSets, TLC

(***************************************************************************)
(* Python values                                                           *)
(***************************************************************************)
PyNone == [type |-> "NoneType", chars |-> <<>>]
Str(cs) == [type |-> "str", chars |-> cs]

UpperCase == <<"A", "B", "C", "D", "E", "F", "G", "H", "I", "J", "K", "L", "M",
               "N", "O", "P", "Q", "R", "S", "T", "U", "V", "W", "X", "Y", "Z">>
LowerCase == <<"a", "b", "c", "d", "e", "f", "g", "h", "i", "j", "k", "l", "m",
               "n", "o", "p", "q", "r", "s", "t", "u", "v", "w", "x", "y", "z">>

\* A list built element by element, as a sequence value.
AsList(f) == SubSeq(f, 1, Len(f))

\* str.lower(): every upper-case letter is replaced by its lower-case letter.
lower(cs) ==
    AsList([i \in 1..Len(cs) |->
        IF \E k \in 1..Len(UpperCase) : UpperCase[k] = cs[i]
        THEN LowerCase[CHOOSE k \in 1..Len(UpperCase) : UpperCase[k] = cs[i]]
        ELSE cs[i]])

\* Python's `sub in s` on strings: sub occurs in s as a contiguous substring.
\* (ContainsSwapped is the test with its operands exchanged, `s in sub`, under
\* which the empty text matches every keyword.)
ContainsSwapped(sub, s) ==
    \E i \in 0..(Len(sub) - Len(s)) : \A j \in 1..Len(s) : sub[i + j] = s[j]
Contains(sub, s) ==
    \E i \in 0..(Len(s) - Len(sub)) : \A j \in 1..Len(sub) : s[i + j] = sub[j]

\* any(word in text_lower for word in words)
AnyIn(words, text_lower) ==
    \E k \in 1..Len(words) : Contains(words[k], text_lower)

\* dict.get(key, default)
Get(d, key, default) ==
    IF \E i \in 1..Len(d) : d[i][1] = key
    THEN d[CHOOSE i \in 1..Len(d) : d[i][1] = key][2]
    ELSE default

\* d[key] = value on a dict that already holds key (its position is kept)
SetItem(d, key, value) ==
    AsList([i \in 1..Len(d) |-> IF d[i][1] = key THEN <<key, value>> ELSE d[i]])

RECURSIVE SumValues(_)
\* sum(d.values())
SumValues(d) == IF d = <<>> THEN 0 ELSE d[1][2] + SumValues(Tail(d))

\* round(x, 3) of x given in ten-thousandths, result in thousandths
\* (round half to even).
Round3Truncate(n) == n \div 10
Round3(n) ==
    LET q == n \div 10
        r == n % 10
    IN  IF r > 5 \/ (r = 5 /\ q % 2 = 1) THEN q + 1 ELSE q

Max(a, b) == IF a >= b THEN a ELSE b

(***************************************************************************)
(* MLPipeline (src/backend/ml_pipeline.py)                                 *)
(***************************************************************************)
EMOTION_LABELS == <<"anger", "fear", "disgust", "happy", "neutral", "sad", "surprise">>

\* {emotion: 0.0 for emotion in self.EMOTION_LABELS}
ZeroScores == AsList([i \in 1..Len(EMOTION_LABELS) |-> <<EMOTION_LABELS[i], 0>>])

\* Outcomes of the mock estimators' random draw, after normalisation: any
\* non-negative scores over the seven labels summing to 1.
RandomScores ==
    { SetItem(ZeroScores, "sad", 1000),
      SetItem(SetItem(ZeroScores, "sad", 988), "neutral", 12),
      << <<"anger", 200>>, <<"fear", 200>>, <<"disgust", 100>>, <<"happy", 100>>,
         <<"neutral", 100>>, <<"sad", 200>>, <<"surprise", 100>> >> }

\* The opaque feature blobs of a request: a missing key, or a dict with the
\* given keys.
NoBlob == [kind |-> "absent", keys |-> {}]
Blob(ks) == [kind |-> "dict", keys |-> ks]

\* `blob or {}` followed by `blob and marker in blob`
HasMarker(blob, marker) == blob.kind = "dict" /\ blob.keys # {} /\ marker \in blob.keys

analyze_facial_emotions(facial_data, rnd) ==
    IF HasMarker(facial_data, "features") THEN rnd ELSE ZeroScores

analyze_voice_emotions(voice_data, rnd) ==
    IF HasMarker(voice_data, "audio_features") THEN rnd ELSE ZeroScores

positive_words ==
    << <<"h", "a", "p", "p", "y">>, <<"g", "o", "o", "d">>, <<"g", "r", "e", "a", "t">>,
       <<"e", "x", "c", "e", "l", "l", "e", "n", "t">>,
       <<"w", "o", "n", "d", "e", "r", "f", "u", "l">>,
       <<"a", "m", "a", "z", "i", "n", "g">> >>
negative_words ==
    << <<"s", "a", "d">>, <<"b", "a", "d">>, <<"t", "e", "r", "r", "i", "b", "l", "e">>,
       <<"a", "w", "f", "u", "l">>, <<"h", "o", "r", "r", "i", "b", "l", "e">>,
       <<"a", "n", "g", "r", "y">> >>
fear_words ==
    << <<"s", "c", "a", "r", "e", "d">>, <<"a", "f", "r", "a", "i", "d">>,
       <<"f", "e", "a", "r">>, <<"w", "o", "r", "r", "i", "e", "d">>,
       <<"a", "n", "x", "i", "o", "u", "s">> >>

\* The text inputs of the model.
TextEmpty == Str(<<>>)
TextSelfHarm ==
    Str(<<"I", " ", "w", "a", "n", "t", " ", "t", "o", " ", "K", "I", "L", "L", " ",
          "M", "Y", "S", "E", "L", "F">>)
TextDistress ==
    Str(<<"s", "o", " ", "s", "a", "d", " ", "a", "n", "d", " ", "s", "c", "a", "r", "e",
          "d", ",", " ", "c", "a", "n", "t", " ", "t", "a", "k", "e", " ", "i", "t">>)
TextOverwhelmed ==
    Str(<<"I", " ", "f", "e", "e", "l", " ", "o", "v", "e", "r", "w", "h", "e", "l", "m",
          "e", "d", " ", "a", "n", "d", " ", "h", "o", "p", "e", "l", "e", "s", "s">>)
TextTwoTriggers ==
    Str(<<"S", "u", "i", "c", "i", "d", "e", " ", "o", "r", " ", "s", "e", "l", "f", " ",
          "h", "a", "r", "m">>)
TextHappy == Str(<<"h", "a", "p", "p", "y">>)
StrTexts == {TextEmpty, TextSelfHarm, TextDistress, TextOverwhelmed, TextTwoTriggers, TextHappy}
AllTexts == StrTexts \cup {PyNone}

\* text_input.lower() of every text of the model, computed once.
text_lower_of == [t \in StrTexts |-> lower(t.chars)]

\* `not text_input`: None and the empty string are falsy.
Falsy(text_input) == text_input.type = "NoneType" \/ text_input.chars = <<>>

analyze_text_sentiment(text_input) ==
    IF Falsy(text_input) THEN ZeroScores
    ELSE
      LET text_lower == text_lower_of[text_input]
          s0 == ZeroScores
          s1 == IF AnyIn(positive_words, text_lower)
                THEN SetItem(SetItem(s0, "happy", 700), "neutral", 300) ELSE s0
          s2 == IF AnyIn(negative_words, text_lower)
                THEN SetItem(SetItem(SetItem(s1, "sad", 500), "anger", 300), "disgust", 200)
                ELSE s1
          s3 == IF AnyIn(fear_words, text_lower)
                THEN SetItem(SetItem(s2, "fear", 800), "surprise", 200) ELSE s2
      IN  IF SumValues(s3) = 0 THEN SetItem(s3, "neutral", 1000) ELSE s3

\* The modality weights, in tenths.
WeightFacial == 4
WeightVoice == 3
WeightText == 3

fuse_emotions_truncating(facial_scores, voice_scores, text_scores) ==
    AsList([i \in 1..Len(EMOTION_LABELS) |->
        <<EMOTION_LABELS[i],
          Round3Truncate(Get(facial_scores, EMOTION_LABELS[i], 0) * WeightFacial
                 + Get(voice_scores, EMOTION_LABELS[i], 0) * WeightVoice
                 + Get(text_scores, EMOTION_LABELS[i], 0) * WeightText)>>])
fuse_emotions(facial_scores, voice_scores, text_scores) ==
    AsList([i \in 1..Len(EMOTION_LABELS) |->
        <<EMOTION_LABELS[i],
          Round3(Get(facial_scores, EMOTION_LABELS[i], 0) * WeightFacial
                 + Get(voice_scores, EMOTION_LABELS[i], 0) * WeightVoice
                 + Get(text_scores, EMOTION_LABELS[i], 0) * WeightText)>>])

\* analyze_text_sentiment of every text of the model, computed once.
text_scores_of == [t \in AllTexts |-> analyze_text_sentiment(t)]

\* analyze_emotions(text_input, voice_data, facial_data); rf and rv are the
\* random draws of the facial and voice estimators.
analyze_emotions(text_input, voice_data, facial_data, rf, rv) ==
    fuse_emotions(analyze_facial_emotions(facial_data, rf),
                  analyze_voice_emotions(voice_data, rv),
                  text_scores_of[text_input])

(***************************************************************************)
(* Risk Assessor: MLPipeline.assess_risk                                   *)
(***************************************************************************)
self_harm_keywords ==
    << <<"k", "i", "l", "l", " ", "m", "y", "s", "e", "l", "f">>,
       <<"e", "n", "d", " ", "i", "t", " ", "a", "l", "l">>,
       <<"s", "u", "i", "c", "i", "d", "e">>,
       <<"s", "e", "l", "f", " ", "h", "a", "r", "m">>,
       <<"h", "u", "r", "t", " ", "m", "y", "s", "e", "l", "f">> >>
distress_keywords ==
    << <<"c", "a", "n", "t", " ", "t", "a", "k", "e", " ", "i", "t">>,
       <<"o", "v", "e", "r", "w", "h", "e", "l", "m", "e", "d">>,
       <<"h", "o", "p", "e", "l", "e", "s", "s">>,
       <<"h", "e", "l", "p", "l", "e", "s", "s">>,
       <<"n", "o", " ", "p", "o", "i", "n", "t">> >>
high_risk_emotions == <<"sad", "anger", "fear">>

\* Scores of assess_risk, in thousandths.
SelfHarmScore == 900
DistressScore == 700
\* The emotion factor 0.8, in tenths.
EmotionFactor == 8
\* The assessment cut-offs 0.5 and 0.3, in thousandths.
HighRiskCut == 500
ModerateRiskCut == 300

RECURSIVE SumOver(_, _)
\* sum(emotion_scores.get(emotion, 0) for emotion in labels)
SumOver(emotion_scores, labels) ==
    IF labels = <<>> THEN 0
    ELSE Get(emotion_scores, Head(labels), 0) + SumOver(emotion_scores, Tail(labels))

high_risk_emotion_score(emotion_scores) == SumOver(emotion_scores, high_risk_emotions)

\* any(keyword in text_lower for keyword in risk_factors['self_harm_keywords'])
has_self_harm_keyword(text_lower) == AnyIn(self_harm_keywords, text_lower)

\* any(keyword in text_lower for keyword in risk_factors['distress_keywords'])
has_distress_keyword(text_lower) == AnyIn(distress_keywords, text_lower)

\* len([k for k in self_harm_keywords if k in text_lower])
triggers_found(text_lower) ==
    Cardinality({k \in 1..Len(self_harm_keywords) : Contains(self_harm_keywords[k], text_lower)})

\* The keyword checks of assess_risk on every text of the model, computed once.
keyword_checks_of ==
    [t \in StrTexts |->
        [self_harm |-> has_self_harm_keyword(text_lower_of[t]),
         distress |-> has_distress_keyword(text_lower_of[t]),
         triggers_found |-> triggers_found(text_lower_of[t])]]

\* self_harm_risk before rounding, in thousandths
SelfHarmFromEmotions(checks, emotion_scores) ==
    IF checks.self_harm \/ high_risk_emotion_score(emotion_scores) > 0
    THEN SelfHarmScore ELSE 0
self_harm_unrounded(checks, emotion_scores) ==
    IF checks.self_harm THEN SelfHarmScore ELSE 0

\* severe_stress_risk before rounding, in ten-thousandths:
\* max(0.7 or 0.0, high_risk_emotion_score * 0.8)
severe_stress_unrounded(checks, emotion_scores) ==
    Max(IF checks.distress THEN DistressScore * 10 ELSE 0,
        high_risk_emotion_score(emotion_scores) * EmotionFactor)

\* `severe_stress_risk > 0.3` compares the unrounded binary product with the
\* literal.  When the exact product is 0.3 (the three scores sum to 0.375) the
\* binary product is 0.3 or 0.30000000000000004 depending on the operands:
\* fp says which.  Away from that point fp is not read.
FpOutcomes(emotion_scores) ==
    IF high_risk_emotion_score(emotion_scores) * EmotionFactor = ModerateRiskCut * 10
    THEN BOOLEAN ELSE {FALSE}

AboveModerateCut(stress, fp) ==
    stress > ModerateRiskCut * 10 \/ (stress = ModerateRiskCut * 10 /\ fp)

assessment_of(self_harm, stress, fp) ==
    IF self_harm > HighRiskCut THEN "High risk detected"
    ELSE IF AboveModerateCut(stress, fp) THEN "Moderate risk"
    ELSE "Low risk"

NoReport ==
    [self_harm_risk |-> 0, severe_stress_risk |-> 0, triggers_found |-> 0,
     assessment |-> "none"]

\* assess_risk(text_input, emotion_scores): [ok, error, value].  A text that
\* is None has no lower(): AttributeError.
assess_risk(text_input, emotion_scores, fp) ==
    IF text_input.type # "str"
    THEN [ok |-> FALSE, error |-> "AttributeError", value |-> NoReport]
    ELSE
      LET checks == keyword_checks_of[text_input]
          self_harm_risk == self_harm_unrounded(checks, emotion_scores)
          severe_stress_risk == severe_stress_unrounded(checks, emotion_scores)
      IN  [ok |-> TRUE, error |-> "",
           value |->
             [self_harm_risk |-> Round3(self_harm_risk * 10),
              severe_stress_risk |-> Round3(severe_stress_risk),
              triggers_found |-> checks.triggers_found,
              assessment |-> assessment_of(self_harm_risk, severe_stress_risk, fp)]]

(***************************************************************************)
(* Response Generator: generate_ai_response and _get_fallback_response     *)
(***************************************************************************)
RECURSIVE ArgMaxFrom(_, _, _)
\* max(items, key=lambda x: x[1]) scanning items from position i with the best
\* position so far b: a later item replaces the best only when strictly larger.
ArgMaxFrom(items, i, b) ==
    IF i > Len(items) THEN b
    ELSE ArgMaxFrom(items, i + 1, IF items[i][2] > items[b][2] THEN i ELSE b)

RECURSIVE ArgMaxLastFrom(_, _, _)
ArgMaxLastFrom(items, i, b) ==
    IF i > Len(items) THEN b
    ELSE ArgMaxLastFrom(items, i + 1, IF items[i][2] >= items[b][2] THEN i ELSE b)

\* dominant_emotion = max(emotion_scores.items(), key=lambda x: x[1])
dominant_emotion_last(emotion_scores) == emotion_scores[ArgMaxLastFrom(emotion_scores, 1, 1)]
dominant_emotion(emotion_scores) == emotion_scores[ArgMaxFrom(emotion_scores, 1, 1)]

DefaultResponse == "I'm here to listen and support you. How can I help you today?"

responses ==
    << <<"happy", "I'm glad to see you're feeling positive! Remember to cherish these good moments.">>,
       <<"sad", "I'm here with you during this difficult time. Your feelings are valid and important.">>,
       <<"anger", "It's okay to feel angry. Would you like to talk about what's bothering you?">>,
       <<"fear", "I sense you're feeling anxious. Remember, you're stronger than you think.">>,
       <<"surprise", "Life can be full of surprises. I'm here to help you process whatever comes up.">>,
       <<"disgust", "I understand you're feeling upset. Let's work through this together.">>,
       <<"neutral", "I'm here to listen whenever you're ready to share. How are you really feeling?">> >>

_get_fallback_response(emotion_scores) ==
    Get(responses, dominant_emotion(emotion_scores)[1], DefaultResponse)

\* What one chat.completions.create call can do: return a completion whose
\* content is one of ServiceContents, or raise.
ServiceContents == {"  I hear you, and I am here for you.  "}
strip(content) ==
    IF content = "  I hear you, and I am here for you.  "
    THEN "I hear you, and I am here for you." ELSE content
ExternalOutcomes == {[raises |-> TRUE, content |-> ""]}
                    \cup {[raises |-> FALSE, content |-> c] : c \in ServiceContents}

\* generate_ai_response(text_input, emotion_scores) with the pipeline's client
\* (openai_client: TRUE when a client was built, FALSE when it is None) and
\* the outcome ext of the outbound call, if one is made.
\* [value: the reply, calls: outbound calls made, failed: the call raised]
generate_surfacing_error(openai_client, text_input, emotion_scores, ext) ==
    IF ~openai_client
    THEN [ok |-> TRUE, value |-> _get_fallback_response(emotion_scores), calls |-> 0]
    ELSE IF ext.raises
    THEN [ok |-> FALSE, value |-> "", calls |-> 1]
    ELSE [ok |-> TRUE, value |-> strip(ext.content), calls |-> 1]
generate_ai_response(openai_client, text_input, emotion_scores, ext) ==
    IF ~openai_client
    THEN [ok |-> TRUE, value |-> _get_fallback_response(emotion_scores), calls |-> 0]
    ELSE IF ext.raises
    THEN [ok |-> TRUE, value |-> _get_fallback_response(emotion_scores), calls |-> 1]
    ELSE [ok |-> TRUE, value |-> strip(ext.content), calls |-> 1]

(***************************************************************************)
(* State                                                                   *)
(***************************************************************************)
VARIABLES
    openai_client,      \* ml_pipeline.openai_client: TRUE a client, FALSE None
    users,              \* table users, in insertion order
    emergency_contacts, \* table emergency_contacts, in insertion order
    emotion_sessions,   \* table emotion_sessions, in insertion order
    last,               \* the last HTTP request handled: what ran and the response
    call                \* the last direct call of a pipeline function (SpecPure)

vars == <<openai_client, users, emergency_contacts, emotion_sessions, last, call>>

\* Rows the tables emotion_sessions and emergency_contacts may hold together
\* in the model.
MaxRows == 2

(***************************************************************************)
(* Session Recorder (src/backend/db.py)                                    *)
(***************************************************************************)
\* json.dumps / json.loads of a dict or report: the text and what it parses to.
json_dumps(v) == [json |-> v]
json_loads(t) == t.json

\* How sqlite stores a Python bool in a BOOLEAN column, and reads it back.
BoolToInt(b) == IF b THEN 1 ELSE 0

\* What the database does during save_emotion_session: every statement
\* succeeds; a statement up to and including commit() raises (nothing is
\* written); or the INSERT is committed and the SELECT that re-reads the row
\* raises.
DbOutcomes == {"ok", "fail_before_commit", "fail_after_commit"}

\* The row INSERTed by save_emotion_session, with its AUTOINCREMENT id.
SessionRow(table, session_data) ==
    [id |-> Len(table) + 1,
     user_id |-> session_data.user_id,
     text_input |-> session_data.text_input,
     ai_response |-> session_data.ai_response,
     emotion_scores |-> json_dumps(session_data.emotion_scores),
     risk_assessment |-> json_dumps(session_data.risk_assessment),
     emergency_triggered |-> BoolToInt(session_data.emergency_triggered)]

\* EmotionSession(*row)
EmotionSession(row) ==
    [id |-> row.id, user_id |-> row.user_id, text_input |-> row.text_input,
     ai_response |-> row.ai_response,
     emotion_scores |-> json_loads(row.emotion_scores),
     risk_assessment |-> json_loads(row.risk_assessment),
     emergency_triggered |-> row.emergency_triggered]

\* save_emotion_session(session_data) on the table, under database outcome db:
\* [ok: it returned, table: the table afterwards, id: the session's id]
save_overwriting(table, session_data, db) ==
    IF db = "fail_before_commit"
    THEN [ok |-> FALSE, table |-> table, id |-> 0]
    ELSE [ok |-> db = "ok",
          table |-> <<SessionRow(<<>>, session_data)>>,
          id |-> 1]
save_uncommitted(table, session_data, db) ==
    IF db = "fail_before_commit"
    THEN [ok |-> FALSE, table |-> table, id |-> 0]
    ELSE [ok |-> TRUE, table |-> IF db = "ok" THEN Append(table, SessionRow(table, session_data)) ELSE table,
          id |-> Len(table) + 1]
save_emotion_session(table, session_data, db) ==
    IF db = "fail_before_commit"
    THEN [ok |-> FALSE, table |-> table, id |-> 0]
    ELSE [ok |-> db = "ok",
          table |-> Append(table, SessionRow(table, session_data)),
          id |-> Len(table) + 1]

RECURSIVE SelectDesc(_, _)
\* SELECT * FROM emotion_sessions WHERE user_id = ? ORDER BY session_date DESC:
\* the user's rows, newest first (session_date grows with the insertion order).
SelectDesc(table, user_id) ==
    IF table = <<>> THEN <<>>
    ELSE LET rest == SelectDesc(SubSeq(table, 1, Len(table) - 1), user_id)
             r == table[Len(table)]
         IN  IF r.user_id = user_id THEN <<r>> \o rest ELSE rest

\* get_user_sessions(user_id, limit)
get_user_sessions(table, user_id, limit) ==
    LET rows == SelectDesc(table, user_id)
        n == IF Len(rows) < limit THEN Len(rows) ELSE limit
    IN  AsList([i \in 1..n |-> EmotionSession(rows[i])])

\* get_user_by_username(username): the matching rows (at most one)
get_user_by_username(table, username) ==
    {i \in 1..Len(table) : table[i].username = username}

\* add_user(user_data): the table afterwards
add_user(table, user_data) ==
    Append(table, [id |-> Len(table) + 1, username |-> user_data.username,
                   email |-> user_data.email,
                   password_hash |-> [hash_of |-> user_data.password]])

\* User.check_password(password)
check_password(user, password) == user.password_hash.hash_of = password

\* add_emergency_contact(user_id, contact_data): the table afterwards
add_emergency_contact(table, user_id, contact_data) ==
    Append(table, [id |-> Len(table) + 1, user_id |-> user_id,
                   name |-> contact_data.name, phone |-> contact_data.phone])

(***************************************************************************)
(* API layer (src/backend/app.py)                                          *)
(***************************************************************************)
\* app.config thresholds, in thousandths.
SELF_HARM_THRESHOLD == 800
SEVERE_STRESS_THRESHOLD == 700

PyInt(n) == [type |-> "int", value |-> n]

\* request.get_json(): the JSON value null, or a JSON object holding the keys
\* in `keys`.
NullBody == [kind |-> "null", keys |-> {}]

\* data.get(key, default)
DataGet(data, key, default) == IF key \in data.keys THEN data[key] ELSE default

\* `not user_id`: None and 0 are falsy.
Truthy(user_id) == user_id.type = "int" /\ user_id.value # 0

AnalyzeObject(keys, user_id, text_input, voice_data, facial_data) ==
    [kind |-> "object", keys |-> keys, user_id |-> user_id, text_input |-> text_input,
     voice_data |-> voice_data, facial_data |-> facial_data]

\* The analyze requests of the model: a null body; an object without user_id;
\* objects with user_id and a null text, no text, texts with or without the
\* feature blobs, and an empty text and a distress text with facial features.
AnalyzeBodies ==
    {NullBody,
     AnalyzeObject({"text_input"}, PyNone, TextSelfHarm, NoBlob, NoBlob),
     AnalyzeObject({"user_id", "text_input"}, PyInt(1), PyNone, NoBlob, NoBlob),
     AnalyzeObject({"user_id"}, PyInt(1), PyNone, NoBlob, NoBlob),
     AnalyzeObject({"user_id", "text_input", "facial_data"}, PyInt(1), TextSelfHarm,
                   NoBlob, Blob({})),
     AnalyzeObject({"user_id", "text_input"}, PyInt(1), TextDistress, NoBlob, NoBlob),
     AnalyzeObject({"user_id", "text_input", "voice_data", "facial_data"}, PyInt(1),
                   TextDistress, Blob({"audio_features"}), Blob({"features"})),
     AnalyzeObject({"user_id", "text_input", "facial_data"}, PyInt(1), TextEmpty,
                   NoBlob, Blob({"features"})),
     AnalyzeObject({"user_id", "text_input", "facial_data"}, PyInt(1), TextDistress,
                   NoBlob, Blob({"features"}))}

\* The emergency decision of analyze_emotion.
\* (EmergencyNotStrict compares with >=, EmergencyStressOnly drops the
\* self-harm disjunct.)
EmergencyNotStrict(risk_assessment) ==
    \/ risk_assessment.self_harm_risk >= SELF_HARM_THRESHOLD
    \/ risk_assessment.severe_stress_risk >= SEVERE_STRESS_THRESHOLD
EmergencyStressOnly(risk_assessment) ==
    risk_assessment.severe_stress_risk > SEVERE_STRESS_THRESHOLD
EmergencyDecision(risk_assessment) ==
    \/ risk_assessment.self_harm_risk > SELF_HARM_THRESHOLD
    \/ risk_assessment.severe_stress_risk > SEVERE_STRESS_THRESHOLD

NoTrace ==
    [has_user_id |-> FALSE, text_input |-> PyNone, steps |-> {}, ext_calls |-> 0,
     ext_raised |-> FALSE, db |-> "none", created |-> {}]

\* jsonify({'error': ...}), status
ErrorResponse(status, error) ==
    [status |-> status,
     body |-> [keys |-> {"error"}, error |-> error, success |-> FALSE, emotions |-> <<>>,
               ai_response |-> "", risk_assessment |-> NoReport,
               emergency_triggered |-> FALSE, session_id |-> 0]]

\* jsonify(response_data), 200
SuccessResponse(emotion_results, ai_response, risk_assessment, emergency_triggered, session_id) ==
    [status |-> 200,
     body |-> [keys |-> {"success", "emotions", "ai_response", "risk_assessment",
                         "emergency_triggered", "session_id"}
                        \cup (IF emergency_triggered THEN {"emergency_alert"} ELSE {}),
               error |-> "", success |-> TRUE, emotions |-> emotion_results,
               ai_response |-> ai_response, risk_assessment |-> risk_assessment,
               emergency_triggered |-> emergency_triggered, session_id |-> session_id]]

\* The random draws an analyze request makes, the outbound call's outcomes and
\* the database's outcomes: a choice exists only where the code reaches it.
ReachesPipeline(data) ==
    data.kind = "object" /\ Truthy(DataGet(data, "user_id", PyNone))
FacialDraws(data) ==
    IF ReachesPipeline(data) /\ HasMarker(DataGet(data, "facial_data", Blob({})), "features")
    THEN RandomScores ELSE {ZeroScores}
VoiceDraws(data) ==
    IF ReachesPipeline(data) /\ HasMarker(DataGet(data, "voice_data", Blob({})), "audio_features")
    THEN RandomScores ELSE {ZeroScores}
ExternalChoices(client, data) ==
    IF ReachesPipeline(data) /\ client THEN ExternalOutcomes
    ELSE {[raises |-> TRUE, content |-> ""]}
DbChoices(data) ==
    IF ReachesPipeline(data) /\ DataGet(data, "text_input", TextEmpty).type = "str"
    THEN DbOutcomes ELSE {"ok"}

\* analyze_emotion(): [response, table, trace] for the request body data, the
\* estimators' draws rf and rv, the outbound call's outcome ext, the rounding
\* outcome fp and the database's outcome db.
analyze_emotion_result(client, table, data, rf, rv, ext, fp, db) ==
    IF data.kind = "null"
    THEN [response |-> ErrorResponse(500, "'NoneType' object has no attribute 'get'"),
          table |-> table, trace |-> NoTrace]
    ELSE
      LET user_id == DataGet(data, "user_id", PyNone)
          text_input == DataGet(data, "text_input", TextEmpty)
          voice_data == DataGet(data, "voice_data", Blob({}))
          facial_data == DataGet(data, "facial_data", Blob({}))
      IN
      IF ~Truthy(user_id)
      THEN [response |-> ErrorResponse(400, "User ID required"),
            table |-> table, trace |-> [NoTrace EXCEPT !.text_input = text_input]]
      ELSE
        LET emotion_results == analyze_emotions(text_input, voice_data, facial_data, rf, rv)
            gen == generate_ai_response(client, text_input, emotion_results, ext)
            risk == assess_risk(text_input, emotion_results, fp)
            emergency_triggered == EmergencyDecision(risk.value)
            session_data ==
                [user_id |-> user_id.value, text_input |-> text_input,
                 ai_response |-> gen.value, emotion_scores |-> emotion_results,
                 risk_assessment |-> risk.value,
                 emergency_triggered |-> emergency_triggered]
            saved == save_emotion_session(table, session_data, db)
            t0 == [NoTrace EXCEPT !.has_user_id = TRUE, !.text_input = text_input,
                                  !.steps = {"estimate", "fuse", "generate"},
                                  !.ext_calls = gen.calls,
                                  !.ext_raised = (gen.calls > 0 /\ ext.raises)]
        IN
        IF ~gen.ok
        THEN [response |-> ErrorResponse(500, "external service error"),
              table |-> table, trace |-> t0]
        ELSE IF ~risk.ok
        THEN [response |-> ErrorResponse(500, "'NoneType' object has no attribute 'lower'"),
              table |-> table,
              trace |-> [t0 EXCEPT !.steps = @ \cup {"assess"}]]
        ELSE
          LET t1 == [t0 EXCEPT !.steps = @ \cup {"assess", "emergency", "persist"},
                               !.db = db,
                               !.created = {saved.table[i].id :
                                              i \in (Len(table) + 1)..Len(saved.table)}]
          IN  IF ~saved.ok
              THEN [response |-> ErrorResponse(500, "database error"),
                    table |-> saved.table, trace |-> t1]
              ELSE [response |-> SuccessResponse(emotion_results, gen.value, risk.value,
                                                 emergency_triggered, saved.id),
                    table |-> saved.table, trace |-> t1]

\* The other requests of the model.
RegisterBodies ==
    {[username |-> "alice", email |-> "alice@example.org", password |-> "pw"],
     [username |-> "", email |-> "alice@example.org", password |-> "pw"]}
LoginBodies ==
    {[username |-> "alice", password |-> pw] : pw \in {"pw", "other", ""}}
ContactBodies ==
    {[user_id |-> PyNone, contact |-> [name |-> "Bob", phone |-> "555"]],
     [user_id |-> PyInt(1), contact |-> [name |-> "Bob", phone |-> "555"]]}
ListRequests == {[user_id |-> u, limit |-> l] : u \in {1, 2}, l \in {1, 50}}

NoRequest == [op |-> "none", status |-> 0, body |-> [keys |-> {}], trace |-> NoTrace]

\* A direct call of the pipeline's functions: fuse_emotions on three
\* distributions, then assess_risk and generate_ai_response on its result.
\* Distributions passed to fuse_emotions: no key at all, all zero, one key,
\* all keys in another order, un-normalised scores, a tie, and scores whose
\* facial share alone fuses to sad + anger + fear = 0.375.
PureDicts ==
    {<<>>,
     ZeroScores,
     << <<"sad", 1000>> >>,
     << <<"surprise", 100>>, <<"sad", 334>>, <<"neutral", 0>>, <<"happy", 666>>,
        <<"disgust", 2>>, <<"fear", 142>>, <<"anger", 250>> >>,
     << <<"sad", 2000>>, <<"anger", 1000>> >>,
     << <<"happy", 500>>, <<"anger", 500>> >>,
     << <<"sad", 312>>, <<"anger", 312>>, <<"fear", 312>>, <<"neutral", 64>> >>}

NoCall ==
    [stage |-> "none", text |-> PyNone, facial |-> <<>>, voice |-> <<>>,
     text_scores |-> <<>>, fused |-> <<>>, assessed |-> FALSE,
     risk |-> [ok |-> FALSE, error |-> "", value |-> NoReport],
     replied |-> FALSE, ext |-> [raises |-> FALSE, content |-> ""],
     reply |-> [ok |-> FALSE, value |-> "", calls |-> 0]]

(***************************************************************************)
(* Initial state and the request handlers                                  *)
(***************************************************************************)
\* init_db() on a fresh database; the pipeline singleton has a client unless
\* OPENAI_API_KEY is set to the empty string.
Init ==
    /\ openai_client \in BOOLEAN
    /\ users = <<>>
    /\ emergency_contacts = <<>>
    /\ emotion_sessions = <<>>
    /\ last = NoRequest
    /\ call = NoCall

\* POST /api/register
register ==
    /\ \E data \in RegisterBodies :
         IF data.username = "" \/ data.email = "" \/ data.password = ""
         THEN /\ last' = [op |-> "register", status |-> 400,
                          body |-> [keys |-> {"error"}], trace |-> NoTrace]
              /\ users' = users
         ELSE IF get_user_by_username(users, data.username) # {}
         THEN /\ last' = [op |-> "register", status |-> 400,
                          body |-> [keys |-> {"error"}], trace |-> NoTrace]
              /\ users' = users
         ELSE /\ users' = add_user(users, data)
              /\ last' = [op |-> "register", status |-> 201,
                          body |-> [keys |-> {"message", "user"}], trace |-> NoTrace]
    /\ UNCHANGED <<openai_client, emergency_contacts, emotion_sessions, call>>

\* POST /api/login
login ==
    /\ \E data \in LoginBodies :
         LET found == get_user_by_username(users, data.username)
         IN  last' = [op |-> "login",
                      status |-> IF data.username = "" \/ data.password = "" THEN 400
                                 ELSE IF found = {} THEN 401
                                 ELSE IF \E i \in found : check_password(users[i], data.password)
                                      THEN 200 ELSE 401,
                      body |-> [keys |-> {}], trace |-> NoTrace]
    /\ UNCHANGED <<openai_client, users, emergency_contacts, emotion_sessions, call>>

\* POST /api/analyze
analyze_emotion ==
    /\ Len(emotion_sessions) + Len(emergency_contacts) < MaxRows
    /\ \E data \in AnalyzeBodies :
         \E rf \in FacialDraws(data), rv \in VoiceDraws(data),
            ext \in ExternalChoices(openai_client, data), db \in DbChoices(data) :
           \E fp \in FpOutcomes(analyze_emotions(DataGet(data, "text_input", TextEmpty),
                                                 DataGet(data, "voice_data", Blob({})),
                                                 DataGet(data, "facial_data", Blob({})),
                                                 rf, rv)) :
             \E r \in {analyze_emotion_result(openai_client, emotion_sessions, data,
                                               rf, rv, ext, fp, db)} :
                 /\ emotion_sessions' = r.table
                 /\ last' = [op |-> "analyze", status |-> r.response.status,
                             body |-> r.response.body, trace |-> r.trace]
    /\ UNCHANGED <<openai_client, users, emergency_contacts, call>>

\* POST /api/emergency-contacts
add_emergency_contact_route ==
    /\ Len(emotion_sessions) + Len(emergency_contacts) < MaxRows
    /\ \E data \in ContactBodies :
         IF ~Truthy(data.user_id)
         THEN /\ last' = [op |-> "add_contact", status |-> 400,
                          body |-> [keys |-> {"error"}], trace |-> NoTrace]
              /\ emergency_contacts' = emergency_contacts
         ELSE /\ emergency_contacts' =
                    add_emergency_contact(emergency_contacts, data.user_id.value, data.contact)
              /\ last' = [op |-> "add_contact", status |-> 201,
                          body |-> [keys |-> {"message", "contact"}], trace |-> NoTrace]
    /\ UNCHANGED <<openai_client, users, emotion_sessions, call>>

\* GET /api/sessions/<user_id>
get_user_sessions_route ==
    /\ \E q \in ListRequests :
         LET sessions == get_user_sessions(emotion_sessions, q.user_id, q.limit)
         IN  last' = [op |-> "list_sessions", status |-> 200,
                      body |-> [keys |-> {"sessions", "count"}, sessions |-> sessions,
                                count |-> Len(sessions)],
                      trace |-> NoTrace]
    /\ UNCHANGED <<openai_client, users, emergency_contacts, emotion_sessions, call>>

Next ==
    \/ register
    \/ login
    \/ analyze_emotion
    \/ add_emergency_contact_route
    \/ get_user_sessions_route

Spec == Init /\ [][Next]_vars

(***************************************************************************)
(* Direct calls of the pipeline's functions                                *)
(***************************************************************************)
InitPure ==
    /\ openai_client \in BOOLEAN
    /\ users = <<>>
    /\ emergency_contacts = <<>>
    /\ emotion_sessions = <<>>
    /\ last = NoRequest
    /\ \E t \in AllTexts, f \in PureDicts, v \in PureDicts, ts \in PureDicts :
         call = [NoCall EXCEPT !.stage = "inputs", !.text = t, !.facial = f,
                               !.voice = v, !.text_scores = ts]

\* ml_pipeline.fuse_emotions(facial, voice, text_scores)
CallFuse ==
    /\ call.stage = "inputs"
    /\ call' = [call EXCEPT !.stage = "fused",
                            !.fused = fuse_emotions(call.facial, call.voice, call.text_scores)]
    /\ UNCHANGED <<openai_client, users, emergency_contacts, emotion_sessions, last>>

\* assess_risk(text, fused)
CallAssessRisk ==
    /\ call.stage = "fused"
    /\ ~call.assessed
    /\ \E fp \in FpOutcomes(call.fused) :
         call' = [call EXCEPT !.assessed = TRUE,
                              !.risk = assess_risk(call.text, call.fused, fp)]
    /\ UNCHANGED <<openai_client, users, emergency_contacts, emotion_sessions, last>>

\* generate_ai_response(text, fused)
CallGenerateResponse ==
    /\ call.stage = "fused"
    /\ ~call.replied
    /\ \E ext \in (IF openai_client THEN ExternalOutcomes
                   ELSE {[raises |-> TRUE, content |-> ""]}) :
         call' = [call EXCEPT !.replied = TRUE, !.ext = ext,
                              !.reply = generate_ai_response(openai_client, call.text,
                                                             call.fused, ext)]
    /\ UNCHANGED <<openai_client, users, emergency_contacts, emotion_sessions, last>>

NextPure ==
    \/ CallFuse
    \/ CallAssessRisk
    \/ CallGenerateResponse

SpecPure == InitPure /\ [][NextPure]_vars

(***************************************************************************)
(* Properties                                                              *)
(***************************************************************************)
\* The distinct values of a sequence.
Range(q) == {q[i] : i \in 1..Len(q)}

\* The score a distribution gives a label, a missing label counting as 0,
\* whatever the position of the label in the distribution.
ScoreOf(d, label) ==
    IF \E pr \in Range(d) : pr[1] = label
    THEN (CHOOSE pr \in Range(d) : pr[1] = label)[2]
    ELSE 0

\* The emergency rule with the default thresholds 0.8 and 0.7.
DefaultRule(report) ==
    report.self_harm_risk > 800 \/ report.severe_stress_risk > 700

\* C1: the emergency flag of every success response of analyze is
\* (self_harm_risk > 0.8) OR (severe_stress_risk > 0.7) on the response's own
\* risk report, the emergency_alert is present exactly then, the flag stored
\* in the session of that response is the same value, and every stored
\* session's flag is that rule applied to its stored risk report.  So a report
\* with self_harm_risk 0.9 always triggers, and so does one with
\* self_harm_risk 0.0 and severe_stress_risk above 0.7.
C1_EmergencyIsThresholdRule ==
    /\ \A i \in 1..Len(emotion_sessions) :
         emotion_sessions[i].emergency_triggered
           = BoolToInt(DefaultRule(json_loads(emotion_sessions[i].risk_assessment)))
    /\ (last.op = "analyze" /\ last.status = 200) =>
         /\ last.body.emergency_triggered = DefaultRule(last.body.risk_assessment)
         /\ ("emergency_alert" \in last.body.keys) = last.body.emergency_triggered
         /\ \E i \in 1..Len(emotion_sessions) :
              /\ emotion_sessions[i].id = last.body.session_id
              /\ emotion_sessions[i].emergency_triggered
                   = BoolToInt(last.body.emergency_triggered)
    /\ (last.op = "analyze" /\ last.status # 200) =>
         /\ ~last.body.emergency_triggered
         /\ "emergency_alert" \notin last.body.keys

\* Two sessions exist, one triggered by self-harm alone (0.9, stress at most
\* 0.7) and one by stress alone (self-harm 0.0), and the last response is a
\* success that reports the emergency.
C1_Witness ==
    /\ last.op = "analyze" /\ last.status = 200 /\ last.body.emergency_triggered
    /\ \E i, j \in 1..Len(emotion_sessions) :
         /\ json_loads(emotion_sessions[i].risk_assessment).self_harm_risk = 900
         /\ json_loads(emotion_sessions[i].risk_assessment).severe_stress_risk <= 700
         /\ emotion_sessions[i].emergency_triggered = 1
         /\ json_loads(emotion_sessions[j].risk_assessment).self_harm_risk = 0
         /\ json_loads(emotion_sessions[j].risk_assessment).severe_stress_risk > 700
         /\ emotion_sessions[j].emergency_triggered = 1

\* C2: every risk report assess_risk returns has self_harm_risk and
\* severe_stress_risk in [0, 1], whatever distributions were fused.
C2_RiskScoresInUnitInterval ==
    (call.assessed /\ call.risk.ok) =>
        /\ call.risk.value.self_harm_risk \in 0..1000
        /\ call.risk.value.severe_stress_risk \in 0..1000

\* The texts of the model that hold a self-harm phrase once lower-cased.
TextsWithSelfHarmPhrase == {TextSelfHarm, TextTwoTriggers}

\* C3: assess_risk answers 'High risk detected' exactly when the lower-cased
\* text holds a self-harm phrase, and then self_harm_risk is 0.9 and
\* triggers_found >= 1; without such a phrase self_harm_risk is 0.0,
\* triggers_found is 0 and the assessment is not 'High risk detected',
\* whatever the fused scores.
C3_HighRiskOnlyFromKeywords ==
    (call.assessed /\ call.risk.ok) =>
        IF call.text \in TextsWithSelfHarmPhrase
        THEN /\ call.risk.value.assessment = "High risk detected"
             /\ call.risk.value.self_harm_risk = 900
             /\ call.risk.value.triggers_found >= 1
        ELSE /\ call.risk.value.assessment # "High risk detected"
             /\ call.risk.value.self_harm_risk = 0
             /\ call.risk.value.triggers_found = 0

\* Both cases at once cannot be one call: a call on an upper-case self-harm
\* text with all-zero fused scores is assessed high.
C3_Witness ==
    /\ call.assessed /\ call.risk.ok
    /\ call.text = TextSelfHarm
    /\ call.fused = ZeroScores
    /\ call.risk.value.assessment = "High risk detected"

\* A call without a self-harm phrase whose fused sad+anger+fear is above 1 is
\* assessed moderate, with self_harm_risk 0.
C3_WitnessNoPhrase ==
    /\ call.assessed /\ call.risk.ok
    /\ call.text = TextOverwhelmed
    /\ ScoreOf(call.fused, "sad") + ScoreOf(call.fused, "anger") + ScoreOf(call.fused, "fear") > 1000
    /\ call.risk.value.assessment = "Moderate risk"

\* The weighted sum of a label, in ten-thousandths.
WeightedSum(facial, voice, text_scores, label) ==
    4 * ScoreOf(facial, label) + 3 * ScoreOf(voice, label) + 3 * ScoreOf(text_scores, label)

\* The sequence in the opposite order.
Reversed(q) == [i \in 1..Len(q) |-> q[Len(q) + 1 - i]]

\* C4: fuse returns the seven labels, each once; each value is the thousandth
\* nearest to 0.4*facial + 0.3*voice + 0.3*text with a missing label counted
\* as 0; the inputs' key order does not change the result; all-zero inputs
\* give all zeros.
C4_FuseIsRoundedWeightedSum ==
    (call.stage = "fused") =>
        /\ Len(call.fused) = 7
        /\ \A i \in 1..7 :
             /\ call.fused[i][1] = EMOTION_LABELS[i]
             /\ 10 * call.fused[i][2]
                  - WeightedSum(call.facial, call.voice, call.text_scores, EMOTION_LABELS[i])
                  \in -5..5
        /\ call.fused = fuse_emotions(Reversed(call.facial), Reversed(call.voice),
                                      Reversed(call.text_scores))
        /\ (\A d \in {call.facial, call.voice, call.text_scores} :
               \A pr \in Range(d) : pr[2] = 0)
             => \A i \in 1..7 : call.fused[i][2] = 0

\* A fusion of a distribution given in another key order with one that holds
\* no key at all, whose sad score 0.4 * 0.334 = 0.1336 is rounded up to 0.134.
C4_Witness ==
    /\ call.stage = "fused"
    /\ call.voice = <<>>
    /\ call.text_scores = <<>>
    /\ Len(call.facial) = 7 /\ call.facial[1][1] = "surprise"
    /\ ScoreOf(call.fused, "sad") = 134

\* The first label, in canonical order, among those with the maximum score.
CanonicalDominant(scores) ==
    LET top == CHOOSE m \in {ScoreOf(scores, EMOTION_LABELS[i]) : i \in 1..7} :
                 \A i \in 1..7 : ScoreOf(scores, EMOTION_LABELS[i]) <= m
        first == CHOOSE i \in 1..7 :
                   /\ ScoreOf(scores, EMOTION_LABELS[i]) = top
                   /\ \A j \in 1..(i - 1) : ScoreOf(scores, EMOTION_LABELS[j]) < top
    IN  EMOTION_LABELS[first]

\* The canned reply of a label.
CannedReply(label) == (CHOOSE pr \in Range(responses) : pr[1] = label)[2]

\* C5: when no client is configured or the outbound call raises,
\* generate_response returns exactly the canned reply of the dominant emotion
\* of the fused distribution, ties going to the first label in the order
\* anger, fear, disgust, happy, neutral, sad, surprise.
C5_FallbackIsCannedDominant ==
    (call.replied /\ (~openai_client \/ call.ext.raises)) =>
        call.reply.value = CannedReply(CanonicalDominant(call.fused))

\* The outbound call raised on a fused distribution where happy and anger tie
\* at the maximum: the reply is the canned reply of anger.
C5_Witness ==
    /\ call.replied /\ openai_client /\ call.ext.raises
    /\ ScoreOf(call.fused, "happy") = ScoreOf(call.fused, "anger")
    /\ ScoreOf(call.fused, "anger") > 0
    /\ CanonicalDominant(call.fused) = "anger"
    /\ call.reply.value = "It's okay to feel angry. Would you like to talk about what's bothering you?"

\* The session rows an analyze request inserted, by id.
CreatedRows == {i \in 1..Len(emotion_sessions) : emotion_sessions[i].id \in last.trace.created}

\* C6: an analyze request makes at most one outbound call, and when that call
\* raises the request is not failed by it: a response other than success
\* comes only from assess_risk rejecting the text or from the persistence
\* step failing, and a success carries the canned fallback reply with its
\* session persisted.
C6_ExternalFailureNotSurfaced ==
    (last.op = "analyze") =>
        /\ last.trace.ext_calls \in {0, 1}
        /\ last.trace.ext_raised =>
             /\ last.trace.ext_calls = 1
             /\ last.status # 200 =>
                  \/ last.trace.text_input.type # "str"
                  \/ "persist" \in last.trace.steps /\ last.trace.db # "ok"
             /\ last.status = 200 =>
                  /\ last.body.ai_response
                       = CannedReply(CanonicalDominant(last.body.emotions))
                  /\ \E i \in CreatedRows :
                       /\ emotion_sessions[i].id = last.body.session_id
                       /\ emotion_sessions[i].ai_response = last.body.ai_response

\* The outbound call raised, one call was made, and the request succeeded
\* with a persisted session.
C6_Witness ==
    /\ last.op = "analyze" /\ last.trace.ext_raised /\ last.trace.ext_calls = 1
    /\ last.status = 200
    /\ \E i \in CreatedRows : emotion_sessions[i].id = last.body.session_id

\* C7: an analyze request without the user identifier is answered with a
\* client error, and no estimator, fusion, response-generation,
\* risk-assessment or persistence step runs for it: no outbound call, no
\* session.
C7_MissingUserIdIsClientError ==
    (last.op = "analyze" /\ ~last.trace.has_user_id) =>
        /\ last.status = 400
        /\ last.trace.steps = {}
        /\ last.trace.ext_calls = 0
        /\ last.trace.created = {}

\* The part of C7 about the pipeline: without a user identifier no step
\* runs, no outbound call is made and no session is created.
C7_NoStepWithoutUserId ==
    (last.op = "analyze" /\ ~last.trace.has_user_id) =>
        /\ last.status \in {400, 500}
        /\ last.trace.steps = {}
        /\ last.trace.ext_calls = 0
        /\ last.trace.created = {}

\* C8 (state part): an analyze request inserts at most one session, a
\* success response exactly one, the one it names; session ids are distinct.
C8_AtMostOneSessionPerRequest ==
    /\ \A i, j \in 1..Len(emotion_sessions) :
         emotion_sessions[i].id = emotion_sessions[j].id => i = j
    /\ (last.op = "analyze") =>
         /\ Cardinality(CreatedRows) <= 1
         /\ Cardinality(CreatedRows) = Cardinality(last.trace.created)
         /\ last.status = 200 =>
              /\ Cardinality(CreatedRows) = 1
              /\ last.body.session_id \in last.trace.created

\* C8 (step part): no request changes or removes a session that exists.
C8_SessionsKept ==
    /\ Len(emotion_sessions') >= Len(emotion_sessions)
    /\ \A i \in 1..Len(emotion_sessions) : emotion_sessions'[i] = emotion_sessions[i]
    /\ Len(emotion_sessions') <= Len(emotion_sessions) + 1
    /\ Len(emotion_sessions') > Len(emotion_sessions) => last'.op = "analyze"

\* C8: each analyze request creates at most one EmotionSession and each
\* success exactly one; a session, once created, is never modified or deleted
\* by a later register, login, analyze, add-contact or list-sessions request.
C8_SessionsCreatedOnceAndImmutable ==
    []C8_AtMostOneSessionPerRequest /\ [][C8_SessionsKept]_vars

\* A second analyze request succeeded while an earlier session exists.
C8_Witness ==
    /\ Len(emotion_sessions) = 2
    /\ last.op = "analyze" /\ last.status = 200
    /\ last.body.session_id = 2

\* C9: a success response of analyze names a committed session holding the
\* request's text input and the response's fused scores, risk report, reply
\* and emergency flag; when the database fails while saving, the response is
\* an internal error.
C9_SuccessImpliesCommittedSession ==
    (last.op = "analyze") =>
        /\ last.status = 200 =>
             \E i \in 1..Len(emotion_sessions) :
                /\ emotion_sessions[i].id = last.body.session_id
                /\ emotion_sessions[i].text_input = last.trace.text_input
                /\ json_loads(emotion_sessions[i].emotion_scores) = last.body.emotions
                /\ json_loads(emotion_sessions[i].risk_assessment) = last.body.risk_assessment
                /\ emotion_sessions[i].ai_response = last.body.ai_response
                /\ emotion_sessions[i].emergency_triggered
                     = BoolToInt(last.body.emergency_triggered)
        /\ last.trace.db \in {"fail_before_commit", "fail_after_commit"} =>
             /\ last.status = 500
             /\ last.body.keys = {"error"}

\* A success response whose session is the second row of the table.
C9_Witness ==
    /\ last.op = "analyze" /\ last.status = 200
    /\ Len(emotion_sessions) = 2
    /\ emotion_sessions[2].id = last.body.session_id
    /\ emotion_sessions[2].text_input = TextDistress
    /\ json_loads(emotion_sessions[2].emotion_scores) = last.body.emotions

\* C10: an analyze request answered with an internal error carries no
\* emotions, risk report or reply, and has persisted no session.
C10_AllOrNothing ==
    (last.op = "analyze" /\ last.status = 500) =>
        /\ last.body.keys = {"error"}
        /\ last.trace.created = {}

\* The part of C10 about the response: an internal error carries only the
\* error; and a failure before the database commits leaves no session.
C10_ErrorCarriesNoData ==
    (last.op = "analyze" /\ last.status = 500) =>
        /\ last.body.keys = {"error"}
        /\ last.trace.db # "fail_after_commit" => last.trace.created = {}

\* The fused sad + anger + fear of a distribution, in thousandths.
HighRiskSum(d) == ScoreOf(d, "sad") + ScoreOf(d, "anger") + ScoreOf(d, "fear")

\* The last request was an analyze request with an empty text (the empty
\* string, sent or defaulted) that succeeded.
EmptyTextAnalyzed ==
    /\ last.op = "analyze" /\ last.status = 200
    /\ last.trace.text_input = TextEmpty

\* C11 as stated: when the text input is empty, the risk report of an analyze
\* request is all zero: self_harm_risk 0.0, severe_stress_risk 0.0,
\* triggers_found 0 and assessment 'Low risk'.
C11_EmptyTextAllZero ==
    EmptyTextAnalyzed =>
        /\ last.body.risk_assessment.self_harm_risk = 0
        /\ last.body.risk_assessment.severe_stress_risk = 0
        /\ last.body.risk_assessment.triggers_found = 0
        /\ last.body.risk_assessment.assessment = "Low risk"

\* C11 amended: when the text input is empty, the risk report of an analyze
\* request has self_harm_risk 0.0 and triggers_found 0, is never 'High risk
\* detected', and its severe_stress_risk is 0.8 * (fused sad + anger + fear)
\* rounded to 3 decimals: 'Low risk' below 0.3, 'Moderate risk' above, and
\* all zero with 'Low risk' when the fused sad, anger and fear are zero (no
\* facial or voice features were sent).
C11_EmptyTextRiskFromEmotionsOnly ==
    EmptyTextAnalyzed =>
        LET report == last.body.risk_assessment
            emotion_sum == HighRiskSum(last.body.emotions)
        IN  /\ report.self_harm_risk = 0
            /\ report.triggers_found = 0
            /\ report.assessment \in {"Low risk", "Moderate risk"}
            /\ report.severe_stress_risk * 10 - emotion_sum * 8 \in -5..5
            /\ report.severe_stress_risk < 300 => report.assessment = "Low risk"
            /\ report.severe_stress_risk > 300 => report.assessment = "Moderate risk"
            /\ emotion_sum = 0 =>
                  /\ report.severe_stress_risk = 0
                  /\ report.assessment = "Low risk"

\* An empty text with facial features: the fused sad score alone puts
\* severe_stress_risk above 0.3 and the assessment is 'Moderate risk'.
C11_Witness ==
    /\ EmptyTextAnalyzed
    /\ HighRiskSum(last.body.emotions) > 0
    /\ last.body.risk_assessment.severe_stress_risk > 300
    /\ last.body.risk_assessment.assessment = "Moderate risk"

\* An empty text without features: every field is zero.
C11_WitnessAllZero ==
    /\ EmptyTextAnalyzed
    /\ HighRiskSum(last.body.emotions) = 0
    /\ last.body.risk_assessment.severe_stress_risk = 0
    /\ last.body.risk_assessment.assessment = "Low risk"

\* The texts of the model that hold a distress phrase once lower-cased.
TextsWithDistressPhrase == {TextDistress, TextOverwhelmed}

\* The assessment the branch order gives the scores a report shows.
AssessmentOfReported(report) ==
    IF report.self_harm_risk > 500 THEN "High risk detected"
    ELSE IF report.severe_stress_risk > 300 THEN "Moderate risk"
    ELSE "Low risk"

\* C13: in every risk report assess_risk returns, the assessment is the one
\* the fixed branch order gives the report's own scores: 'High risk detected'
\* if the reported self_harm_risk > 0.5 (whatever the stress score),
\* otherwise 'Moderate risk' if the reported severe_stress_risk > 0.3,
\* otherwise 'Low risk'; and the reported severe_stress_risk is
\* max(0.7 if a distress phrase is present else 0.0,
\*     0.8 * (sad + anger + fear)) rounded to 3 decimals.
C13_AssessmentAgreesWithReport ==
    (call.assessed /\ call.risk.ok) =>
        LET report == call.risk.value
            keyword == IF call.text \in TextsWithDistressPhrase THEN 7000 ELSE 0
            emotion == HighRiskSum(call.fused) * 8
            stress == IF keyword >= emotion THEN keyword ELSE emotion
        IN  /\ report.assessment = AssessmentOfReported(report)
            /\ report.severe_stress_risk * 10 - stress \in -5..5

\* The part of C13 that does not read the assessment next to a score of
\* exactly 0.3: the stress score is the stated maximum, the self-harm branch
\* wins whatever the stress score, and away from a reported 0.3 the
\* assessment follows the reported scores.
C13_AgreesAwayFromCut ==
    (call.assessed /\ call.risk.ok) =>
        LET report == call.risk.value
            keyword == IF call.text \in TextsWithDistressPhrase THEN 7000 ELSE 0
            emotion == HighRiskSum(call.fused) * 8
            stress == IF keyword >= emotion THEN keyword ELSE emotion
        IN  /\ report.severe_stress_risk * 10 - stress \in -5..5
            /\ report.self_harm_risk > 500 => report.assessment = "High risk detected"
            /\ report.severe_stress_risk # 300 =>
                  report.assessment = AssessmentOfReported(report)

\* A report showing severe_stress_risk 0.3 next to 'Moderate risk'.
C13_ReportedCutIsModerate ==
    /\ call.assessed /\ call.risk.ok
    /\ call.risk.value.self_harm_risk = 0
    /\ call.risk.value.severe_stress_risk = 300
    /\ call.risk.value.assessment = "Moderate risk"

\* C14: under the default thresholds, an analyze request whose text holds a
\* distress phrase and no self-harm phrase, and whose fused sad + anger + fear
\* is at most 0.875, does not set emergency_triggered, in the response or in
\* the stored session; and an emergency without a self-harm score above the
\* threshold has a fused sad + anger + fear above 0.875.
C14_DistressAloneBelowEmergency ==
    /\ (last.op = "analyze" /\ last.status = 200) =>
         /\ ( /\ last.trace.text_input \in TextsWithDistressPhrase
              /\ last.trace.text_input \notin TextsWithSelfHarmPhrase
              /\ HighRiskSum(last.body.emotions) <= 875 )
            => /\ ~last.body.emergency_triggered
               /\ "emergency_alert" \notin last.body.keys
               /\ \A i \in CreatedRows : emotion_sessions[i].emergency_triggered = 0
         /\ (last.body.emergency_triggered /\ last.body.risk_assessment.self_harm_risk <= 800)
            => HighRiskSum(last.body.emotions) > 875
    /\ \A i \in 1..Len(emotion_sessions) :
         ( /\ emotion_sessions[i].emergency_triggered = 1
           /\ json_loads(emotion_sessions[i].risk_assessment).self_harm_risk <= 800 )
         => HighRiskSum(json_loads(emotion_sessions[i].emotion_scores)) > 875

\* A distress text whose fused sad + anger + fear is exactly 0.875: the
\* reported severe_stress_risk is 0.7 and no emergency is set.
C14_Witness ==
    /\ last.op = "analyze" /\ last.status = 200
    /\ last.trace.text_input = TextDistress
    /\ HighRiskSum(last.body.emotions) = 875
    /\ last.body.risk_assessment.severe_stress_risk = 700
    /\ ~last.body.emergency_triggered
    /\ CreatedRows # {}

\* The same distress text with a fused sad + anger + fear of 0.88: a
\* stress-only emergency.
C14_WitnessStressOnly ==
    /\ last.op = "analyze" /\ last.status = 200
    /\ last.trace.text_input = TextDistress
    /\ HighRiskSum(last.body.emotions) = 880
    /\ last.body.risk_assessment.self_harm_risk = 0
    /\ last.body.emergency_triggered

====
